---- MODULE Spec2Model ----
(***************************************************************************)
(* The NBD client request engine of the tapdisk NBD driver: the            *)
(* slot pool and its three lists, the writer and reader callbacks, the     *)
(* connection-wide disable and the close path, together with the scheduler *)
(* registrations, the bytes put on the socket and the upstream             *)
(* completions they produce.                                               *)
(***************************************************************************)
EXTENDS Integers, Sequences, FiniteSets, TLC

\* ---------------------------------------------------------------- bounds
\* Number of request slots of a connection (TAPDISK_DATA_REQUESTS, scaled).
MAX_NBD_REQS == 2
\* Number of upstream requests the engine takes charge of in one behaviour
\* (a request turned away with -EBUSY stays with the block layer).
MaxSubmit == 2
\* Number of slots of the FD stash (N_PASSED_FDS, scaled).
N_PASSED_FDS == 2
\* Number of file descriptors the process obtains in one behaviour.
MaxFds == 3
\* Number of times the driver is opened in one behaviour.
MaxOpens == 2
\* The size in bytes of the export the peer announces.
ExportSize == 1541

\* ------------------------------------------------------- program constants
TAPDISK_NBD_CMD_READ == 0
TAPDISK_NBD_CMD_WRITE == 1
TAPDISK_NBD_CMD_DISC == 2
NBD_REQUEST_SIZE == 28
NBD_REPLY_SIZE == 16
\* The magic of a request header and the magic a reply header is to carry.
NBD_REQUEST_MAGIC == 627086611
NBD_REPLY_MAGIC == 1732535960
SECTOR_SIZE == 512
HANDLE_MOD == 65535
EIO == 5
EBUSY == 16
ETIMEDOUT == 110
NoEvent == -1
NoReq == -1
\* prv->name of a connection that was not opened from the FD stash (NULL).
NoName == <<>>
\* sizeof(passed_fds[i].id)
PASSED_ID_SIZE == 40
\* The first descriptor number the process is given (0..2 are taken).
FirstFd == 3
SECTOR_SHIFT == 9
DEFAULT_SECTOR_SIZE == 512
\* The 8-byte magics of the greeting, as the bytes on the wire: "NBDMAGIC",
\* the OLD-style second magic (in hex) and "IHAVEOPT".
NBD_MAGIC == "NBDMAGIC"
NBD_OLD_VERSION == "0x0000420281861253"
NBD_OPT_MAGIC == "IHAVEOPT"
\* Sizes of the pieces of the server's greeting.
MAGIC_SIZE == 8
EXPORT_SIZE_SIZE == 8
OLD_FLAGS_SIZE == 4
OLD_PAD_SIZE == 124
GFLAGS_SIZE == 2
CFLAGS_SIZE == 4
NO_ZERO_HANDSHAKE_FINISH_SIZE == 10

Slots == 0 .. (MAX_NBD_REQS - 1)

HexDigits ==
  <<"0", "1", "2", "3", "4", "5", "6", "7",
    "8", "9", "a", "b", "c", "d", "e", "f">>

\* "%05x": five lower-case hex digits, most significant first.
Hex5(n) ==
  [i \in 1 .. 5 |-> HexDigits[((n \div (16 ^ (5 - i))) % 16) + 1]]

\* snprintf(handle, 8, "td%05x", id % 0xffff)
MakeHandle(id) == <<"t", "d">> \o Hex5(id % HANDLE_MOD)

\* A handle no request of this process carries (0xfffff is never generated).
ForeignHandle == <<"t", "d", "f", "f", "f", "f", "f">>

\* ------------------------------------------------------------- list.h
RECURSIVE list_del(_, _)
list_del(list, e) ==
  IF list = <<>> THEN <<>>
  ELSE IF Head(list) = e THEN list_del(Tail(list), e)
  ELSE <<Head(list)>> \o list_del(Tail(list), e)

list_add(list, e) == <<e>> \o list
list_add_tail(list, e) == Append(list, e)

Range(s) == {s[i] : i \in 1 .. Len(s)}

\* ------------------------------------------------------------ environment
\* The scheduler: the set of event ids currently registered.
register_event(registered) ==
  CHOOSE id \in 1 .. (Cardinality(registered) + 1) : id \notin registered

unregister_event(registered, id) == registered \ {id}

\* td_complete_request(treq, err): one more entry of the upstream's log.
td_complete_request(w, treq, err) ==
  [w EXCEPT !.completed = Append(@, [treq |-> treq, err |-> err])]

\* The socket's outgoing byte stream, kept as runs of consecutive bytes of
\* one part (header or body) of one request.
Send(wire, gid, part, lo, n) ==
  IF n = 0 THEN wire
  ELSE IF /\ wire # <<>>
          /\ wire[Len(wire)].gid = gid
          /\ wire[Len(wire)].part = part
          /\ wire[Len(wire)].hi = lo
       THEN [wire EXCEPT ![Len(wire)].hi = lo + n]
       ELSE Append(wire, [gid |-> gid, part |-> part, lo |-> lo, hi |-> lo + n])

\* Byte counts a run of send()/recv() calls may move before it stops short
\* of `left` bytes: all but the last byte (nothing when one byte is left).
Progress(left) == {left - 1}

\* ------------------------------------------------------------- disable
\* __cancel_req over one list, in list order.
RECURSIVE cancel_list(_, _, _)
cancel_list(w, list, e) ==
  IF list = <<>> THEN w
  ELSE cancel_list(td_complete_request(w, w.prv.requests[Head(list)].treq, e),
                   Tail(list), e)

\* Variant: the pending requests are forgotten.
tdnbd_disable_SentOnly(w, e) ==
  LET w1 == [w EXCEPT !.sched = unregister_event(
                          unregister_event(@, w.prv.writer_event_id),
                          w.prv.reader_event_id)]
      w2 == cancel_list(w1, w1.prv.sent_reqs, e)
  IN [w2 EXCEPT !.prv.closed = 3, !.disabled = e]

tdnbd_disable(w, e) ==
  LET w1 == [w EXCEPT !.sched = unregister_event(
                          unregister_event(@, w.prv.writer_event_id),
                          w.prv.reader_event_id)]
      w2 == cancel_list(w1, w1.prv.sent_reqs, e)
      w3 == cancel_list(w2, w2.prv.pending_reqs, e)
  IN [w3 EXCEPT !.prv.closed = 3, !.disabled = e]

\* ----------------------------------------------------------- transport
\* The outcomes of one call: the cursor it leaves, its return code (what is
\* left to move, 0 when complete, negative on error or peer shutdown) and
\* whether send() returned 0 or failed with an errno other than EAGAIN.
\* EAGAIN is only possible on a non-blocking socket.
\* Variant: EAGAIN is reported as "nothing left".
tdnbd_write_some_AgainIsDone(data, nonblock) ==
  LET left == data.len - data.so_far
  IN IF left <= 0 THEN {[so_far |-> data.so_far, rc |-> 0, bad |-> FALSE]}
     ELSE {[so_far |-> data.len, rc |-> 0, bad |-> FALSE]}
          \cup {[so_far |-> data.so_far + n, rc |-> 0, bad |-> FALSE] :
                  n \in {m \in Progress(left) : nonblock}}
          \cup {[so_far |-> data.so_far + n, rc |-> -1, bad |-> TRUE] :
                  n \in Progress(left)}

tdnbd_write_some(data, nonblock) ==
  LET left == data.len - data.so_far
  IN IF left <= 0 THEN {[so_far |-> data.so_far, rc |-> 0, bad |-> FALSE]}
     ELSE {[so_far |-> data.len, rc |-> 0, bad |-> FALSE]}
          \cup {[so_far |-> data.so_far + n, rc |-> left - n, bad |-> FALSE] :
                  n \in {m \in Progress(left) : nonblock}}
          \cup {[so_far |-> data.so_far + n, rc |-> -1, bad |-> TRUE] :
                  n \in Progress(left)}

\* Variant: a failed recv() is reported as "need more data".
tdnbd_read_some_FailIsAgain(data) ==
  LET left == data.len - data.so_far
  IN IF left <= 0 THEN {[so_far |-> data.so_far, rc |-> 0, bad |-> FALSE]}
     ELSE {[so_far |-> data.len, rc |-> 0, bad |-> FALSE]}
          \cup {[so_far |-> data.so_far + n, rc |-> left - n, bad |-> FALSE] :
                  n \in Progress(left)}
          \cup {[so_far |-> data.so_far + n, rc |-> left - n, bad |-> TRUE] :
                  n \in Progress(left)}

\* The same around recv(); the reader only runs on the non-blocking socket.
tdnbd_read_some(data) ==
  LET left == data.len - data.so_far
  IN IF left <= 0 THEN {[so_far |-> data.so_far, rc |-> 0, bad |-> FALSE]}
     ELSE {[so_far |-> data.len, rc |-> 0, bad |-> FALSE]}
          \cup {[so_far |-> data.so_far + n, rc |-> left - n, bad |-> FALSE] :
                  n \in Progress(left)}
          \cup {[so_far |-> data.so_far + n, rc |-> -1, bad |-> TRUE] :
                  n \in Progress(left)}

\* --------------------------------------------------------- writer queue
\* Variant: the writer event is never registered.
enable_write_queue_Never(w) == w

enable_write_queue(w) ==
  IF w.prv.writer_event_id >= 0 THEN w
  ELSE LET id == register_event(w.sched)
       IN [w EXCEPT !.sched = @ \cup {id}, !.prv.writer_event_id = id]

disable_write_queue(w) ==
  IF w.prv.writer_event_id < 0 THEN w
  ELSE [w EXCEPT !.sched = unregister_event(@, w.prv.writer_event_id),
                 !.prv.writer_event_id = NoEvent]

\* write_some on the header of slot pos, with its bytes put on the wire.
writer_send_header(w, pos, h) ==
  LET req == w.prv.requests[pos]
  IN [w EXCEPT !.prv.requests[pos].header.so_far = h.so_far,
               !.wire = Send(@, req.gid, "header", req.header.so_far,
                             h.so_far - req.header.so_far),
               !.fail = @ \/ h.bad,
               !.send_failed = @ \/ h.bad]

writer_send_body(w, pos, b) ==
  LET req == w.prv.requests[pos]
  IN [w EXCEPT !.prv.requests[pos].body.so_far = b.so_far,
               !.wire = Send(@, req.gid, "body", req.body.so_far,
                             b.so_far - req.body.so_far),
               !.fail = @ \/ b.bad,
               !.send_failed = @ \/ b.bad]

\* Variant: a DISC is treated like a READ or a WRITE.
writer_done_with_DiscSent(w, pos) ==
  [w EXCEPT !.prv.pending_reqs = list_del(@, pos),
            !.prv.sent_reqs = list_add(@, pos)]

\* The tail of the loop body: where a request goes once written.
writer_done_with(w, pos) ==
  IF w.prv.requests[pos].type = TAPDISK_NBD_CMD_DISC
  THEN [w EXCEPT !.prv.pending_reqs = list_del(@, pos),
                 !.prv.free_reqs = list_add(@, pos),
                 !.prv.nr_free_count = @ + 1,
                 !.prv.closed = 2]
  ELSE [w EXCEPT !.prv.pending_reqs = list_del(@, pos),
                 !.prv.sent_reqs = list_add(@, pos)]

\* list_for_each_entry_safe over pending_reqs; the result tells whether the
\* callback returned from inside the loop.
RECURSIVE writer_loop(_, _, _)
writer_loop(w, todo, nonblock) ==
  IF todo = <<>> THEN {[w |-> w, returned |-> FALSE]}
  ELSE
    LET pos == Head(todo)
        \* what follows the header once it is written as far as h says
        after_header(w1, h) ==
          IF h.rc > 0 THEN {[w |-> w1, returned |-> TRUE]}
          ELSE IF w1.prv.requests[pos].type = TAPDISK_NBD_CMD_WRITE
          THEN UNION {
                 UNION {
                   IF b.rc > 0 THEN {[w |-> w2, returned |-> TRUE]}
                   ELSE UNION {writer_loop(w3, Tail(todo), nonblock) :
                                 w3 \in {writer_done_with(w2, pos)}}
                   : w2 \in {writer_send_body(w1, pos, b)} }
                 : b \in tdnbd_write_some(w1.prv.requests[pos].body, nonblock) }
          ELSE UNION {writer_loop(w3, Tail(todo), nonblock) :
                        w3 \in {writer_done_with(w1, pos)}}
    IN UNION {
         UNION {after_header(w1, h) : w1 \in {writer_send_header(w, pos, h)}}
         : h \in tdnbd_write_some(w.prv.requests[pos].header, nonblock) }

\* Variant: the writer event stays registered.
writer_after_loop_KeepsEvent(w) ==
  IF w.prv.closed = 2 THEN tdnbd_disable(w, EIO) ELSE w

writer_after_loop(w) ==
  LET w1 == disable_write_queue(w)
  IN IF w1.prv.closed = 2 THEN tdnbd_disable(w1, EIO) ELSE w1

tdnbd_writer_cb(w, nonblock) ==
  {IF r.returned THEN r.w ELSE writer_after_loop(r.w) :
     r \in writer_loop(w, w.prv.pending_reqs, nonblock)}

\* -------------------------------------------------------------- enqueue
\* What queue_request does with a free slot on a connection that is not dead.
queue_accept(w, type, length, treq) ==
  LET req == Head(w.prv.free_reqs)
      id == w.global_id
      filled == [treq |-> treq,
                 gid |-> id,
                 handle |-> MakeHandle(id),
                 type |-> type,
                 header |-> [len |-> NBD_REQUEST_SIZE, so_far |-> 0],
                 body |-> [len |-> length, so_far |-> 0]]
      w1 == [w EXCEPT !.global_id = id + 1,
                      !.prv.requests[req] = filled,
                      !.prv.free_reqs = list_del(@, req),
                      !.prv.pending_reqs = list_add_tail(@, req),
                      !.prv.nr_free_count = @ - 1,
                      !.accepted = Append(@, [gid |-> id, type |-> type,
                                              len |-> length, treq |-> treq])]
  IN [w |-> IF w1.prv.writer_event_id < 0 THEN enable_write_queue(w1) ELSE w1,
      rc |-> 0]


\* Variant: the dead connection is looked at before the free count.
tdnbd_queue_request_DeadFirst(w, type, length, treq) ==
  IF w.prv.closed = 3
  THEN [w |-> td_complete_request(w, treq, -ETIMEDOUT), rc |-> -ETIMEDOUT]
  ELSE IF w.prv.nr_free_count = 0 THEN [w |-> w, rc |-> -EBUSY]
  ELSE queue_accept(w, type, length, treq)

\* Variant: the dead connection is not looked at.
tdnbd_queue_request_NoDeadCheck(w, type, length, treq) ==
  IF w.prv.nr_free_count = 0 THEN [w |-> w, rc |-> -EBUSY]
  ELSE queue_accept(w, type, length, treq)

\* Returns the new world and the return code.
tdnbd_queue_request(w, type, length, treq) ==
  IF w.prv.nr_free_count = 0 THEN [w |-> w, rc |-> -EBUSY]
  ELSE IF w.prv.closed = 3
  THEN [w |-> td_complete_request(w, treq, -ETIMEDOUT), rc |-> -ETIMEDOUT]
  ELSE queue_accept(w, type, length, treq)

tdnbd_queue_read(w, treq, secs) ==
  tdnbd_queue_request(w, TAPDISK_NBD_CMD_READ, secs * SECTOR_SIZE, treq)

tdnbd_queue_write(w, treq, secs) ==
  tdnbd_queue_request(w, TAPDISK_NBD_CMD_WRITE, secs * SECTOR_SIZE, treq)

\* --------------------------------------------------------------- reader
\* The reply headers the peer may have put on the stream: a reply without
\* error for a request it was sent or may yet be sent, or for a handle of
\* nobody, a reply with an error for a request it was sent, and a reply for
\* a request it was sent that carries the request magic instead of the
\* reply magic.
PeerReplies(w) ==
  LET sent == {w.prv.requests[s].handle : s \in Range(w.prv.sent_reqs)}
      pending == {w.prv.requests[s].handle : s \in Range(w.prv.pending_reqs)}
  IN [magic : {NBD_REPLY_MAGIC}, error : {0},
      handle : sent \cup pending \cup {ForeignHandle}]
     \cup [magic : {NBD_REPLY_MAGIC}, error : {1}, handle : sent]
     \cup [magic : {NBD_REQUEST_MAGIC}, error : {0}, handle : sent]

\* Variant: replies are taken to come in the order of the list.
find_sent_First(requests, list, handle) ==
  IF list = <<>> THEN NoReq ELSE Head(list)

\* The linear scan of sent_reqs for the reply's handle (memcmp of 8 bytes).
RECURSIVE find_sent(_, _, _)
find_sent(requests, list, handle) ==
  IF list = <<>> THEN NoReq
  ELSE IF requests[Head(list)].handle = handle THEN Head(list)
  ELSE find_sent(requests, Tail(list), handle)

\* Variant: the free count is not moved.
reader_finish_NoCount(w) ==
  LET pos == w.prv.curr_reply_req
  IN [w EXCEPT !.prv.sent_reqs = list_del(@, pos),
               !.prv.pending_reqs = list_del(@, pos),
               !.prv.free_reqs = list_add(list_del(@, pos), pos),
               !.prv.cur_reply_qio.so_far = 0,
               !.prv.curr_reply_req = NoReq,
               !.okreq = pos]

\* Variant: the reply state is kept for the next reply.
reader_finish_KeepsReply(w) ==
  LET pos == w.prv.curr_reply_req
  IN [w EXCEPT !.prv.sent_reqs = list_del(@, pos),
               !.prv.pending_reqs = list_del(@, pos),
               !.prv.free_reqs = list_add(list_del(@, pos), pos),
               !.prv.nr_free_count = @ + 1,
               !.okreq = pos]

\* "remove the state": the answered slot goes back to the free list.
reader_finish(w) ==
  LET pos == w.prv.curr_reply_req
  IN [w EXCEPT !.prv.sent_reqs = list_del(@, pos),
               !.prv.pending_reqs = list_del(@, pos),
               !.prv.free_reqs = list_add(list_del(@, pos), pos),
               !.prv.nr_free_count = @ + 1,
               !.prv.cur_reply_qio.so_far = 0,
               !.prv.curr_reply_req = NoReq,
               !.okreq = pos]

\* The switch on the matched request's type.
reader_dispatch(w) ==
  LET pos == w.prv.curr_reply_req
      req == w.prv.requests[pos]
  IN IF req.type = TAPDISK_NBD_CMD_READ
     THEN UNION {
            { IF b.rc < 0 THEN tdnbd_disable(w1, EIO)
              ELSE IF b.rc > 0 THEN w1
              ELSE reader_finish(td_complete_request(w1, req.treq, 0))
              : w1 \in {[w EXCEPT !.prv.requests[pos].body.so_far = b.so_far,
                                  !.fail = @ \/ b.bad]} }
            : b \in tdnbd_read_some(req.body) }
     ELSE IF req.type = TAPDISK_NBD_CMD_WRITE
     THEN {reader_finish(td_complete_request(w, req.treq, 0))}
     ELSE {w}

\* Variant: the reply's error field is not looked at.
reader_got_header_IgnoresError(w) ==
  LET w1 == IF w.prv.curr_reply_req = NoReq
            THEN [w EXCEPT !.prv.curr_reply_req =
                    find_sent(w.prv.requests, w.prv.sent_reqs,
                              w.prv.current_reply.handle)]
            ELSE w
  IN IF w1.prv.curr_reply_req = NoReq THEN {tdnbd_disable(w1, EIO)}
     ELSE reader_dispatch(w1)

\* From "Got a header" on.
reader_got_header(w) ==
  IF w.prv.current_reply.error # 0 THEN {tdnbd_disable(w, EIO)}
  ELSE
    UNION {
      IF w1.prv.curr_reply_req = NoReq THEN {tdnbd_disable(w1, EIO)}
      ELSE reader_dispatch(w1)
      : w1 \in {IF w.prv.curr_reply_req = NoReq
                THEN [w EXCEPT !.prv.curr_reply_req =
                        find_sent(w.prv.requests, w.prv.sent_reqs,
                                  w.prv.current_reply.handle)]
                ELSE w} }

tdnbd_reader_cb(w) ==
  UNION {
    UNION {
      IF h.rc < 0 THEN {tdnbd_disable(w1, EIO)}
      ELSE IF h.rc > 0 THEN {w1}
      ELSE IF w.prv.cur_reply_qio.so_far < w.prv.cur_reply_qio.len
      THEN UNION {
             UNION {reader_got_header(w2) :
                      w2 \in {[w1 EXCEPT !.prv.current_reply = rep]}}
             : rep \in PeerReplies(w) }
      ELSE reader_got_header(w1)
      : w1 \in {[w EXCEPT !.prv.cur_reply_qio.so_far = h.so_far,
                          !.fail = @ \/ h.bad]} }
    : h \in tdnbd_read_some(w.prv.cur_reply_qio) }

\* ------------------------------------------------------------ FD stash
StashSlots == 0 .. (N_PASSED_FDS - 1)

\* The identifiers file descriptors are passed and looked up under.
StashIds == {<<"a">>, <<"b">>, <<"c">>}

Take(str, n) == SubSeq(str, 1, IF Len(str) < n THEN Len(str) ELSE n)

\* strncmp(a, b, sizeof(id) - 1) == 0
strncmp_eq(a, b) == Take(a, PASSED_ID_SIZE - 1) = Take(b, PASSED_ID_SIZE - 1)

\* safe_strncpy(dst, src, sizeof(id)): at most sizeof(id) - 1 characters.
safe_strncpy(src) == Take(src, PASSED_ID_SIZE - 1)

\* The table as tdnbd_fdreceiver_start leaves it: static storage, every fd -1.
EmptyStash == [i \in StashSlots |-> [id |-> <<>>, fd |-> -1]]

\* The index a loop over the table breaks at: the smallest of S, or -1.
first_index(S) ==
  IF S = {} THEN -1 ELSE CHOOSE i \in S : \A j \in S : i <= j

close_fd(w, fd) == [w EXCEPT !.fds = @ \ {fd}]

\* stamp records, for each slot, which store filled it last.
tdnbd_stash_passed_fd(w, fd, msg) ==
  LET free_index == first_index({i \in StashSlots :
                      \/ w.passed_fds[i].fd = -1
                      \/ strncmp_eq(msg, w.passed_fds[i].id)})
  IN IF free_index = -1 THEN close_fd(w, fd)
     ELSE LET w1 == IF w.passed_fds[free_index].fd > -1
                    THEN close_fd(w, w.passed_fds[free_index].fd)
                    ELSE w
          IN [w1 EXCEPT !.passed_fds[free_index] =
                           [id |-> safe_strncpy(msg), fd |-> fd],
                        !.nstored = @ + 1,
                        !.stamp[free_index] = w.nstored + 1]

\* Returns the new world and the descriptor found, or -1.
tdnbd_retrieve_passed_fd(w, name) ==
  LET i == first_index({j \in StashSlots :
                          strncmp_eq(name, w.passed_fds[j].id)})
  IN IF i = -1 THEN [w |-> w, fd |-> -1]
     ELSE [w |-> [w EXCEPT !.passed_fds[i].fd = -1],
           fd |-> w.passed_fds[i].fd]

\* ------------------------------------------------------------ handshake
\* The ways one tdnbd_wait_recv can end.
DeliveryKinds == {"ok", "short", "closed", "timeout", "error"}

\* What the peer sends first, its two magics and the size of its export, and
\* the ways its deliveries may end.
PeerHellos ==
  [magic1 : {NBD_MAGIC}, magic2 : {NBD_OLD_VERSION, NBD_OPT_MAGIC, NBD_MAGIC},
   size : {ExportSize}, kinds : {DeliveryKinds}]
  \cup [magic1 : {NBD_OPT_MAGIC}, magic2 : {NBD_OPT_MAGIC}, size : {ExportSize},
         kinds : {DeliveryKinds}]

\* tdnbd_wait_recv(fd, buf, len, 0): select() times out or fails, or one
\* recv() fails, finds the peer gone (0), or returns 1 .. len bytes.
tdnbd_wait_recv(len, kinds) ==
  {r \in {[rc |-> -ETIMEDOUT, how |-> "timeout"],
          [rc |-> -EIO, how |-> "error"],
          [rc |-> 0, how |-> "closed"],
          [rc |-> len, how |-> "ok"]}
         \cup {[rc |-> n, how |-> "short"] : n \in {1, len - 1} \ {0, len}} :
     r.how \in kinds}

\* The first step at which the peer did not deliver what the step requires.
peer_did(w, step, how) ==
  IF how = "ok" \/ w.hs.bad # "none" THEN w
  ELSE [w EXCEPT !.hs.bad = step, !.hs.how = how]

\* errout: close(sock); return -1.
hs_errout(w) == [w |-> close_fd(w, w.prv.socket), rc |-> -1, returned |-> TRUE]

hs_done(w) ==
  [w |-> [w EXCEPT !.nonblock = TRUE], rc |-> 0, returned |-> TRUE]

\* `rc < sizeof(x)` with rc an int: the comparison is made in size_t.
less_than_sizeof(rc, size) == rc >= 0 /\ rc < size

\* The drain of the 124 pad bytes: loops until padbytes is used up; a peer
\* that is gone makes every recv() return 0, and the loop never ends.
RECURSIVE old_pad_loop(_, _, _)
old_pad_loop(w, padbytes, kinds) ==
  IF padbytes <= 0 THEN {hs_done(w)}
  ELSE UNION {
         LET w1 == peer_did(w, "pad", IF r.how = "short" THEN "ok" ELSE r.how)
         IN IF r.rc < 0 THEN {hs_errout(w1)}
            ELSE IF r.rc = 0 THEN {[w |-> w1, rc |-> 0, returned |-> FALSE]}
            ELSE old_pad_loop(w1, padbytes - r.rc, kinds)
         : r \in {q \in tdnbd_wait_recv(padbytes, kinds) :
                    q.rc # 1 \/ padbytes = 1} }

tdnbd_nbd_negotiate_old(w, hello) ==
  UNION {
    LET w1 == peer_did(w, "size", r3.how)
    IN IF r3.rc < 0 \/ less_than_sizeof(r3.rc, EXPORT_SIZE_SIZE)
       THEN {hs_errout(w1)}
       ELSE
         LET w2 == [w1 EXCEPT !.info.size = hello.size \div (2 ^ SECTOR_SHIFT),
                              !.info.sector_size = DEFAULT_SECTOR_SIZE]
         IN UNION {
              LET w3 == peer_did(w2, "flags", r4.how)
              IN IF r4.rc < 0 \/ less_than_sizeof(r4.rc, OLD_FLAGS_SIZE)
                 THEN {hs_errout(w3)}
                 ELSE old_pad_loop(w3, OLD_PAD_SIZE, hello.kinds)
              : r4 \in tdnbd_wait_recv(OLD_FLAGS_SIZE, hello.kinds) }
    : r3 \in tdnbd_wait_recv(EXPORT_SIZE_SIZE, hello.kinds) }

\* The option request and the export name go out (send_fully_or_fail), then
\* one tdnbd_wait_recv for the 10-byte reply; only a negative return is an
\* error.  With fewer than 8 bytes received, exportsize is read from bytes
\* of the stack that nothing has written.
negotiate_client_newstyle_options(w, hello) ==
  UNION {
    IF ~sent THEN {hs_errout(w)}
    ELSE UNION {
           LET w1 == peer_did(w, "finish", r.how)
           IN IF r.rc < 0 THEN {hs_errout(w1)}
              ELSE {hs_done([w1 EXCEPT !.info.size = size,
                                       !.info.sector_size = DEFAULT_SECTOR_SIZE])
                    : size \in IF r.rc >= EXPORT_SIZE_SIZE
                               THEN {hello.size \div (2 ^ SECTOR_SHIFT)}
                               ELSE {hello.size \div (2 ^ SECTOR_SHIFT), 0}}
           : r \in tdnbd_wait_recv(NO_ZERO_HANDSHAKE_FINISH_SIZE, hello.kinds) }
    : sent \in BOOLEAN }

tdnbd_nbd_negotiate_new(w, hello) ==
  UNION {
    LET w1 == peer_did(w, "gflags", r3.how)
    IN IF r3.rc < 0 \/ less_than_sizeof(r3.rc, GFLAGS_SIZE)
       THEN {hs_errout(w1)}
       ELSE UNION {
              IF less_than_sizeof(sent, CFLAGS_SIZE) THEN {hs_errout(w1)}
              ELSE negotiate_client_newstyle_options(w1, hello)
              : sent \in {CFLAGS_SIZE, CFLAGS_SIZE - 1, -1} }
    : r3 \in tdnbd_wait_recv(GFLAGS_SIZE, hello.kinds) }

\* The outcomes of the handshake on prv.socket with a peer that sends hello:
\* the new world, the return code, and whether the call returns at all.
\* hs.path is "greet" while the two magics are read, then "old" or "new".
tdnbd_nbd_negotiate(w0, hello) ==
  UNION {
    LET w == [w0 EXCEPT !.hs.path = "greet"]
        w1 == peer_did(w, "magic1",
                       IF r1.how = "ok" /\ hello.magic1 # NBD_MAGIC
                       THEN "magic" ELSE r1.how)
    IN IF r1.rc < 0 \/ less_than_sizeof(r1.rc, MAGIC_SIZE) \/ hello.magic1 # NBD_MAGIC
       THEN {hs_errout(w1)}
       ELSE UNION {
              LET w2 == peer_did(w1, "magic2",
                                 IF /\ r2.how = "ok"
                                    /\ hello.magic2 \notin {NBD_OLD_VERSION, NBD_OPT_MAGIC}
                                 THEN "magic" ELSE r2.how)
              IN IF r2.rc < 0 \/ less_than_sizeof(r2.rc, MAGIC_SIZE)
                 THEN {hs_errout(w2)}
                 ELSE IF hello.magic2 = NBD_OLD_VERSION
                 THEN tdnbd_nbd_negotiate_old([w2 EXCEPT !.hs.path = "old"], hello)
                 ELSE IF hello.magic2 = NBD_OPT_MAGIC
                 THEN tdnbd_nbd_negotiate_new([w2 EXCEPT !.hs.path = "new"], hello)
                 ELSE {hs_errout(w2)}
              : r2 \in tdnbd_wait_recv(MAGIC_SIZE, hello.kinds) }
    : r1 \in tdnbd_wait_recv(MAGIC_SIZE, hello.kinds) }

\* ----------------------------------------------------------- open, close
ZeroRequest ==
  [treq |-> 0, gid |-> 0, handle |-> <<>>, type |-> 0,
   header |-> [len |-> 0, so_far |-> 0],
   body |-> [len |-> 0, so_far |-> 0]]

ZeroReply == [magic |-> 0, error |-> 0, handle |-> <<>>]

\* struct tdnbd_data before tdnbd_open has filled it.
ZeroPrv ==
  [writer_event_id |-> 0, reader_event_id |-> 0,
   sent_reqs |-> <<>>, pending_reqs |-> <<>>, free_reqs |-> <<>>,
   requests |-> [s \in Slots |-> ZeroRequest],
   nr_free_count |-> 0,
   current_reply |-> ZeroReply,
   cur_reply_qio |-> [len |-> 0, so_far |-> 0],
   curr_reply_req |-> NoReq,
   socket |-> 0,
   name |-> NoName,
   closed |-> 0]

\* list_add of requests[0..MAX_NBD_REQS-1] in turn, each at the head.
RECURSIVE init_free_reqs(_)
init_free_reqs(n) ==
  IF n = 0 THEN <<>> ELSE list_add(init_free_reqs(n - 1), n - 1)

\* socket(): the process is given the next descriptor.
new_socket(w) ==
  [w EXCEPT !.fds = @ \cup {w.next_fd}, !.next_fd = @ + 1,
            !.prv.socket = w.next_fd, !.nonblock = FALSE]

\* The tail of tdnbd_open, after a handshake that has returned.
open_after_negotiate(r) ==
  IF ~r.returned \/ r.rc # 0 THEN [r EXCEPT !.rc = IF r.returned THEN -1 ELSE 0]
  ELSE LET id == register_event(r.w.sched)
       IN [r EXCEPT !.w = [r.w EXCEPT !.sched = @ \cup {id},
                                      !.prv.reader_event_id = id,
                                      !.prv.closed = 0]]

\* The names the driver is opened with: the path of a UNIX socket, a
\* host:port pair, and the identifiers of passed descriptors.
UnixName == <<"/", "s">>
TcpName == <<"h", ":", "1">>

\* stat(name) finds a socket; sscanf(name, "%255[^:]:%d") finds two fields.
is_socket_path(name) == name # <<>> /\ Head(name) = "/"
is_host_port(name) ==
  \E i \in 2 .. (Len(name) - 1) :
    /\ name[i] = ":"
    /\ \A j \in 1 .. (i - 1) : name[j] # ":"
    /\ name[i + 1] \in {HexDigits[d] : d \in 1 .. 10}

\* conn: what socket() and connect() do, "ok", "nosocket" or "refused";
\* hello: what the peer sends first.
tdnbd_open(w, name, conn, hello) ==
  LET prv0 == [ZeroPrv EXCEPT !.writer_event_id = NoEvent,
                              !.free_reqs = init_free_reqs(MAX_NBD_REQS),
                              !.nr_free_count = MAX_NBD_REQS,
                              !.cur_reply_qio = [len |-> NBD_REPLY_SIZE, so_far |-> 0]]
      w0 == [w EXCEPT !.prv = prv0,
                      !.info = [size |-> @.size, sector_size |-> SECTOR_SIZE],
                      !.hs = [hello |-> hello, path |-> "none", bad |-> "none",
                              how |-> "ok"]]
      failed(x) == {[w |-> x, rc |-> -1, returned |-> TRUE]}
  IN IF is_socket_path(name)
     THEN IF conn = "nosocket" THEN failed([w0 EXCEPT !.prv.socket = -1])
          ELSE IF conn = "refused" THEN failed(new_socket(w0))
          ELSE {open_after_negotiate(r) :
                  r \in tdnbd_nbd_negotiate(new_socket(w0), hello)}
     ELSE IF is_host_port(name)
     THEN IF conn = "nosocket" THEN failed(w0)
          ELSE IF conn = "refused"
          THEN failed([close_fd(new_socket(w0), w0.next_fd) EXCEPT !.prv.socket = 0])
          ELSE {open_after_negotiate(r) :
                  r \in tdnbd_nbd_negotiate(new_socket(w0), hello)}
     ELSE LET got == tdnbd_retrieve_passed_fd(w0, name)
              w1 == [got.w EXCEPT !.prv.socket = got.fd]
          IN IF got.fd < 0 THEN failed(w1)
             ELSE {open_after_negotiate(r) :
                     r \in tdnbd_nbd_negotiate([w1 EXCEPT !.prv.name = name], hello)}

\* Variant: the socket of a connection opened by name is closed, not parked.
tdnbd_close_NeverParks(w) ==
  IF w.prv.closed = 3
  THEN {[w |-> [(IF w.prv.socket >= 0 THEN close_fd(w, w.prv.socket) ELSE w)
                  EXCEPT !.prv.socket = -1],
         rc |-> 0]}
  ELSE LET q == tdnbd_queue_request(w, TAPDISK_NBD_CMD_DISC, 0, 0)
           blocking == [q.w EXCEPT !.nonblock = FALSE]
       IN {[w |-> [(IF r.prv.socket >= 0 THEN close_fd(r, r.prv.socket) ELSE r)
                     EXCEPT !.prv.socket = -1],
            rc |-> 0] : r \in tdnbd_writer_cb(blocking, FALSE)}

\* The DISC is queued with a zeroed treq and flushed on the blocking socket;
\* the return value of the enqueue is dropped.
tdnbd_close(w) ==
  IF w.prv.closed = 3
  THEN {[w |-> [(IF w.prv.socket >= 0 THEN close_fd(w, w.prv.socket) ELSE w)
                  EXCEPT !.prv.socket = -1],
         rc |-> 0]}
  ELSE LET q == tdnbd_queue_request(w, TAPDISK_NBD_CMD_DISC, 0, 0)
           blocking == [q.w EXCEPT !.nonblock = FALSE]
       IN {[w |-> IF r.prv.name # NoName
                  THEN tdnbd_stash_passed_fd(r, r.prv.socket, r.prv.name)
                  ELSE [(IF r.prv.socket >= 0 THEN close_fd(r, r.prv.socket) ELSE r)
                          EXCEPT !.prv.socket = -1],
            rc |-> 0] : r \in tdnbd_writer_cb(blocking, FALSE)}

\* ------------------------------------------------------------ the system
VARIABLES
  prv,        \* struct tdnbd_data of the connection
  global_id,  \* the process-wide handle counter
  sched,      \* event ids registered with the scheduler
  wire,       \* bytes accepted by the socket, as runs
  completed,  \* td_complete_request calls, in order
  accepted,   \* requests queue_request put on pending_reqs, in order
  send_failed, \* whether a send() has failed or returned 0 so far
  phase,      \* "unopened", "failed", "open", "closed"
  nsub,       \* upstream requests queued or completed by queue_request
  passed_fds, \* the FD stash
  fds,        \* the file descriptors open in the process
  next_fd,    \* the number of descriptors the process has obtained so far
  nstored,    \* the number of stores into the FD stash so far
  stamp,      \* per stash slot, the store that filled it last (0: none)
  info,       \* driver->info: size in sectors and sector size
  nonblock,   \* whether the connection's socket is in O_NONBLOCK mode
  hs,         \* the last handshake: the path taken, and the first step at
              \* which the peer did not deliver what the step requires
  nopen,      \* the number of calls of tdnbd_open so far
  last        \* the operation that ran last, and what it did

vars ==
  <<prv, global_id, sched, wire, completed, accepted, send_failed, phase,
    nsub, passed_fds, fds, next_fd, nstored, stamp, info, nonblock, hs,
    nopen, last>>

World ==
  [prv |-> prv, global_id |-> global_id, sched |-> sched, wire |-> wire,
   completed |-> completed, accepted |-> accepted,
   send_failed |-> send_failed,
   passed_fds |-> passed_fds, fds |-> fds, next_fd |-> next_fd,
   nstored |-> nstored, stamp |-> stamp,
   info |-> info, nonblock |-> nonblock, hs |-> hs,
   fail |-> FALSE, disabled |-> 0, okreq |-> NoReq]

Install(w) ==
  /\ prv' = w.prv
  /\ global_id' = w.global_id
  /\ sched' = w.sched
  /\ wire' = w.wire
  /\ completed' = w.completed
  /\ accepted' = w.accepted
  /\ send_failed' = w.send_failed
  /\ passed_fds' = w.passed_fds
  /\ fds' = w.fds
  /\ next_fd' = w.next_fd
  /\ nstored' = w.nstored
  /\ stamp' = w.stamp
  /\ info' = w.info
  /\ nonblock' = w.nonblock
  /\ hs' = w.hs

\* The record of an operation: its name, its return value, its argument
\* (the upstream request of an enqueue, the identifier and descriptor of a
\* stash operation) and what it did.
DidArg(op, rc, treq, arg, w) ==
  [op |-> op, rc |-> rc, treq |-> treq, arg |-> arg, fail |-> w.fail,
   disabled |-> w.disabled, okreq |-> w.okreq, clen |-> Len(completed)]

Did(op, rc, treq, w) == DidArg(op, rc, treq, <<>>, w)

Init ==
  /\ prv = ZeroPrv
  /\ global_id = 0
  /\ sched = {}
  /\ wire = <<>>
  /\ completed = <<>>
  /\ accepted = <<>>
  /\ send_failed = FALSE
  /\ phase = "unopened"
  /\ nsub = 0
  /\ passed_fds = EmptyStash
  /\ fds = {}
  /\ next_fd = FirstFd
  /\ nstored = 0
  /\ stamp = [i \in StashSlots |-> 0]
  /\ info = [size |-> 0, sector_size |-> 0]
  /\ nonblock = FALSE
  /\ hs = [hello |-> [magic1 |-> "", magic2 |-> "", size |-> 0, kinds |-> {}],
           path |-> "none", bad |-> "none", how |-> "ok"]
  /\ nopen = 0
  /\ last = [op |-> "none", rc |-> 0, treq |-> 0, arg |-> <<>>, fail |-> FALSE,
             disabled |-> 0, okreq |-> NoReq, clen |-> 0]

\* One call of tdnbd_open, its name, the environment and the peer drawn from
\* the sets given.  A handshake that never returns leaves the caller inside
\* tdnbd_open for good.
OpenWith(names, conns, hellos) ==
  /\ nopen < MaxOpens
  /\ \E name \in names, conn \in conns, hello \in hellos :
       /\ (name \in {UnixName, TcpName} /\ conn # "nosocket") =>
            next_fd < FirstFd + MaxFds
       /\ \E r \in tdnbd_open(World, name, conn, hello) :
            /\ Install(r.w)
            /\ phase' = IF ~r.returned THEN "negotiating"
                        ELSE IF r.rc = 0 THEN "open" ELSE "failed"
            /\ last' = DidArg(IF r.returned THEN "open" ELSE "open_hung",
                              r.rc, 0, <<name>>, r.w)
  /\ nopen' = nopen + 1
  /\ UNCHANGED nsub

\* The connection the request engine is studied on: a TCP peer that offers
\* the OLD-style greeting and delivers every piece of it whole.
MainHellos ==
  {[magic1 |-> NBD_MAGIC, magic2 |-> NBD_OLD_VERSION, size |-> ExportSize,
    kinds |-> {"ok"}]}

Open ==
  /\ phase = "unopened"
  /\ OpenWith({TcpName}, {"ok"}, MainHellos)

QueueRead ==
  /\ phase = "open"
  /\ nsub < MaxSubmit \/ prv.nr_free_count = 0
  /\ LET r == tdnbd_queue_read(World, nsub + 1, 1)
     IN /\ Install(r.w)
        /\ last' = Did("queue_read", r.rc, nsub + 1, r.w)
        /\ nsub' = IF r.rc = -EBUSY THEN nsub ELSE nsub + 1
  /\ UNCHANGED <<phase, nopen>>

QueueWrite ==
  /\ phase = "open"
  /\ nsub < MaxSubmit \/ prv.nr_free_count = 0
  /\ LET r == tdnbd_queue_write(World, nsub + 1, 1)
     IN /\ Install(r.w)
        /\ last' = Did("queue_write", r.rc, nsub + 1, r.w)
        /\ nsub' = IF r.rc = -EBUSY THEN nsub ELSE nsub + 1
  /\ UNCHANGED <<phase, nopen>>

\* The scheduler runs the writer callback while its event is registered.
WriterCb ==
  /\ phase = "open"
  /\ prv.writer_event_id \in sched
  /\ \E w \in tdnbd_writer_cb(World, TRUE) :
       /\ Install(w)
       /\ last' = Did("writer_cb", 0, 0, w)
  /\ UNCHANGED <<phase, nsub, nopen>>

\* The scheduler runs the reader callback while its event is registered.
ReaderCb ==
  /\ phase = "open"
  /\ prv.reader_event_id \in sched
  /\ \E w \in tdnbd_reader_cb(World) :
       /\ Install(w)
       /\ last' = Did("reader_cb", 0, 0, w)
  /\ UNCHANGED <<phase, nsub, nopen>>

Close ==
  /\ phase = "open"
  /\ \E r \in tdnbd_close(World) :
       /\ Install(r.w)
       /\ last' = Did("close", r.rc, 0, r.w)
  /\ phase' = "closed"
  /\ UNCHANGED <<nsub, nopen>>

Next ==
  \/ Open
  \/ QueueRead
  \/ QueueWrite
  \/ WriterCb
  \/ ReaderCb
  \/ Close

Spec == Init /\ [][Next]_vars

\* The FD stash on its own: the fdreceiver callback stores a descriptor the
\* process has just received, and a lookup takes one out for its caller.
\* A behaviour is not followed beyond an open that failed or hangs.
StashFd ==
  /\ phase \notin {"failed", "negotiating"}
  /\ next_fd < FirstFd + MaxFds
  /\ \E id \in StashIds :
       LET w0 == [World EXCEPT !.fds = @ \cup {next_fd}, !.next_fd = @ + 1]
           w == tdnbd_stash_passed_fd(w0, next_fd, id)
       IN /\ Install(w)
          /\ last' = DidArg("stash", 0, 0, <<id, next_fd>>, w)
  /\ UNCHANGED <<phase, nsub, nopen>>

RetrieveFd ==
  /\ \E id \in StashIds :
       LET r == tdnbd_retrieve_passed_fd(World, id)
       IN /\ Install(r.w)
          /\ last' = DidArg("retrieve", r.fd, 0, <<id>>, r.w)
  /\ UNCHANGED <<phase, nsub, nopen>>

NextStash ==
  \/ StashFd
  \/ RetrieveFd

SpecStash == Init /\ [][NextStash]_vars

\* The handshake: the driver is opened once, by path, by address or by a
\* name the stash does not hold, against any peer; the reader callback then
\* runs while registered and the driver is closed.
OpenAny ==
  /\ phase = "unopened"
  /\ OpenWith({UnixName, TcpName} \cup StashIds, {"ok", "nosocket", "refused"},
              PeerHellos)

NextHandshake ==
  \/ OpenAny
  \/ ReaderCb
  \/ Close

SpecHandshake == Init /\ [][NextHandshake]_vars

\* Parking: descriptors are passed to the process, the driver is opened by
\* name against an OLD-style peer, the reader callback runs while
\* registered, and the driver is closed and opened again (an open that
\* failed is not tried again).
OpenNamed ==
  /\ phase \in {"unopened", "closed"}
  /\ OpenWith(StashIds, {"ok"}, MainHellos)

NextPark ==
  \/ StashFd
  \/ OpenNamed
  \/ ReaderCb
  \/ Close

SpecPark == Init /\ [][NextPark]_vars

TypeOK ==
  /\ phase \in {"unopened", "negotiating", "failed", "open", "closed"}
  /\ prv.closed \in {0, 2, 3}
  /\ prv.nr_free_count \in 0 .. MAX_NBD_REQS

\* =============================================================== claims
Opened == phase \in {"open", "closed"}

Outstanding == prv.sent_reqs \o prv.pending_reqs

WriterRegistered ==
  prv.writer_event_id >= 0 /\ prv.writer_event_id \in sched

ReaderRegistered == prv.reader_event_id \in sched

\* How many times the upstream request treq has been completed.
Times(treq) ==
  Cardinality({i \in 1 .. Len(completed) : completed[i].treq = treq})

\* The completions made by the operation that ran last.
LastCompletions == SubSeq(completed, last.clen + 1, Len(completed))

EnqueueOps == {"queue_read", "queue_write"}

\* A step of queue_read or queue_write.
EnqueueStep == last'.op \in EnqueueOps

EngineUnchanged == UNCHANGED <<prv, sched, wire, accepted, global_id>>

\* C1: after a successful open every slot is on exactly one of free_reqs,
\* pending_reqs and sent_reqs, nr_free_count is the length of free_reqs and
\* nr_free_count + |pending_reqs| + |sent_reqs| = MAX_NBD_REQS.
C1_SlotAccounting ==
  Opened =>
    LET all == prv.free_reqs \o prv.pending_reqs \o prv.sent_reqs
    IN /\ \A s \in Slots : Cardinality({i \in 1 .. Len(all) : all[i] = s}) = 1
       /\ prv.nr_free_count = Len(prv.free_reqs)
       /\ prv.nr_free_count + Len(prv.pending_reqs) + Len(prv.sent_reqs)
            = MAX_NBD_REQS

\* A reply has just freed a slot while another request waits to be sent.
C1_Witness ==
  /\ phase = "open"
  /\ last.op = "reader_cb"
  /\ last.okreq # NoReq
  /\ prv.pending_reqs # <<>>

\* C2: on a live connection on which nothing has been completed, an enqueue
\* succeeds exactly while fewer than MAX_NBD_REQS requests were accepted and
\* returns -EBUSY after that; and any enqueue made with nr_free_count = 0
\* returns -EBUSY and changes neither the lists, the count, the registrations,
\* the wire nor the completions.
C2_BusyWhenFull ==
  [][EnqueueStep =>
       /\ (prv.closed = 0 /\ completed = <<>>) =>
            /\ (Len(accepted) < MAX_NBD_REQS => last'.rc = 0)
            /\ (Len(accepted) >= MAX_NBD_REQS => last'.rc = -EBUSY)
       /\ prv.nr_free_count = 0 =>
            /\ last'.rc = -EBUSY
            /\ completed' = completed
            /\ EngineUnchanged]_vars

\* The enqueue after MAX_NBD_REQS accepted ones on a fresh connection.
C2_Witness ==
  /\ last.op \in EnqueueOps
  /\ last.rc = -EBUSY
  /\ prv.closed = 0
  /\ completed = <<>>
  /\ Len(accepted) = MAX_NBD_REQS

\* C3 as stated: with closed = 3 every enqueue completes the request with
\* ETIMEDOUT and queues nothing.
C3_Original ==
  [][(EnqueueStep /\ prv.closed = 3) =>
       /\ last'.rc = -ETIMEDOUT
       /\ completed' = Append(completed, [treq |-> last'.treq, err |-> -ETIMEDOUT])
       /\ EngineUnchanged]_vars

\* C3: with closed = 3 and a free slot left, an enqueue completes the request
\* with ETIMEDOUT at once, returns -ETIMEDOUT and queues nothing.
C3_DeadWithFreeSlot ==
  [][(EnqueueStep /\ prv.closed = 3 /\ prv.nr_free_count > 0) =>
       /\ last'.rc = -ETIMEDOUT
       /\ completed' = Append(completed, [treq |-> last'.treq, err |-> -ETIMEDOUT])
       /\ EngineUnchanged]_vars

C3_Witness ==
  /\ last.op \in EnqueueOps
  /\ last.rc = -ETIMEDOUT
  /\ prv.closed = 3
  /\ Outstanding # <<>>

\* C4 as stated: after every engine operation the writer event is registered
\* exactly when pending_reqs is not empty.
C4_Original ==
  Opened => (WriterRegistered <=> prv.pending_reqs # <<>>)

\* C4: on a connection that is not dead the writer event is registered
\* exactly when pending_reqs is not empty; on a dead one it is not
\* registered, whatever pending_reqs holds.
C4_WriterRegistration ==
  Opened =>
    IF prv.closed = 3 THEN ~WriterRegistered
    ELSE (WriterRegistered <=> prv.pending_reqs # <<>>)

\* The writer callback has returned on EAGAIN and stays registered.
C4_Witness ==
  /\ last.op = "writer_cb"
  /\ prv.closed = 0
  /\ prv.pending_reqs # <<>>
  /\ WriterRegistered
  /\ prv.sent_reqs # <<>>

\* C5: once disable(e) has run no event is registered, the requests on
\* sent_reqs and then those on pending_reqs have been completed with e, in
\* that order and once each, and no request is ever completed twice.
C5_DisableCompletesOnce ==
  /\ \A i, j \in 1 .. Len(completed) :
       completed[i].treq = completed[j].treq => i = j
  /\ last.disabled # 0 =>
       /\ sched = {}
       /\ prv.closed = 3
       /\ LastCompletions =
            [i \in 1 .. Len(Outstanding) |->
               [treq |-> prv.requests[Outstanding[i]].treq, err |-> last.disabled]]
       /\ \A i \in 1 .. Len(Outstanding) :
            Times(prv.requests[Outstanding[i]].treq) = 1

\* disable has run with requests on both lists.
C5_Witness ==
  /\ last.disabled = EIO
  /\ prv.sent_reqs # <<>>
  /\ prv.pending_reqs # <<>>

\* C6 as stated: a close on a live connection queues a DISC, puts it on the
\* wire after everything that was pending, leaves closed = 3 and has every
\* request that was outstanding completed with EIO.  Only the closes of
\* connections on which no send() has ever failed are looked at.
C6_Original ==
  [][(phase = "open" /\ phase' = "closed" /\ prv.closed = 0 /\ ~send_failed') =>
       /\ prv'.closed = 3
       /\ Len(accepted') = Len(accepted) + 1
       /\ accepted'[Len(accepted')].type = TAPDISK_NBD_CMD_DISC
       /\ wire' # <<>>
       /\ wire'[Len(wire')] =
            [gid |-> accepted'[Len(accepted')].gid, part |-> "header",
             lo |-> 0, hi |-> NBD_REQUEST_SIZE]
       /\ \A i \in 1 .. Len(Outstanding) :
            \E j \in 1 .. Len(completed') :
              completed'[j] =
                [treq |-> prv.requests[Outstanding[i]].treq, err |-> EIO]]_vars

\* The bytes the accepted requests are made of, in the order of acceptance:
\* the whole header and, for a WRITE, the whole body.
RECURSIVE ExpectedWire(_)
ExpectedWire(acc) ==
  IF acc = <<>> THEN <<>>
  ELSE LET a == Head(acc)
       IN <<[gid |-> a.gid, part |-> "header", lo |-> 0, hi |-> NBD_REQUEST_SIZE]>>
          \o (IF a.type = TAPDISK_NBD_CMD_WRITE /\ a.len > 0
              THEN <<[gid |-> a.gid, part |-> "body", lo |-> 0, hi |-> a.len]>>
              ELSE <<>>)
          \o ExpectedWire(Tail(acc))

\* The number of bytes of a part of a request that are on the wire.
WireBytes(gid, part) ==
  IF \E i \in 1 .. Len(wire) : wire[i].gid = gid /\ wire[i].part = part
  THEN LET i == CHOOSE k \in 1 .. Len(wire) :
                  wire[k].gid = gid /\ wire[k].part = part
       IN wire[i].hi - wire[i].lo
  ELSE 0

\* C7: as long as no send() has failed, the wire holds a prefix of the
\* accepted requests' bytes in the order of acceptance, each header whole
\* before its body and each request whole before the next, and the cursors
\* of the requests in flight count exactly their bytes on the wire.
C7_WireInOrder ==
  ~send_failed =>
    LET e == ExpectedWire(accepted)
    IN /\ Len(wire) <= Len(e)
       /\ \A i \in 1 .. Len(wire) :
            /\ wire[i].gid = e[i].gid
            /\ wire[i].part = e[i].part
            /\ wire[i].lo = 0
            /\ wire[i].hi <= e[i].hi
            /\ i < Len(wire) => wire[i].hi = e[i].hi
       /\ \A i \in 1 .. Len(Outstanding) :
            LET req == prv.requests[Outstanding[i]]
            IN /\ WireBytes(req.gid, "header") = req.header.so_far
               /\ req.type = TAPDISK_NBD_CMD_WRITE =>
                    WireBytes(req.gid, "body") = req.body.so_far

\* A short send inside the body of the second request.
C7_Witness ==
  /\ ~send_failed
  /\ last.op = "writer_cb"
  /\ Len(wire) = 3
  /\ wire[1].gid # wire[2].gid
  /\ wire[3].part = "body"
  /\ wire[3].hi < SECTOR_SIZE

DistinctHandles(list) ==
  \A i, j \in 1 .. Len(list) :
    i # j => prv.requests[list[i]].handle # prv.requests[list[j]].handle

\* C8: with distinct handles on sent_reqs, a reply without error completes,
\* with success and once its READ body is whole, the request that carries
\* the reply's handle, whatever its place in the list, and frees its slot;
\* when every accepted request has been answered sent_reqs is empty and
\* nr_free_count is MAX_NBD_REQS again.
C8_ReplyMatching ==
  /\ (/\ last.op = "reader_cb"
      /\ last.okreq # NoReq
      /\ DistinctHandles(<<last.okreq>> \o prv.sent_reqs)) =>
       LET req == prv.requests[last.okreq]
       IN /\ req.handle = prv.current_reply.handle
          /\ prv.current_reply.error = 0
          /\ LastCompletions = <<[treq |-> req.treq, err |-> 0]>>
          /\ req.type = TAPDISK_NBD_CMD_READ => req.body.so_far = req.body.len
          /\ prv.free_reqs # <<>>
          /\ Head(prv.free_reqs) = last.okreq
          /\ \A i \in 1 .. Len(prv.sent_reqs) :
               prv.requests[prv.sent_reqs[i]].handle # prv.current_reply.handle
  /\ (/\ prv.closed = 0
      /\ accepted # <<>>
      /\ \A i \in 1 .. Len(accepted) :
           \E j \in 1 .. Len(completed) :
             completed[j] = [treq |-> accepted[i].treq, err |-> 0]) =>
       /\ prv.sent_reqs = <<>>
       /\ prv.nr_free_count = MAX_NBD_REQS

\* The younger of two sent requests is answered first: a READ, whose body
\* has been read.
C8_Witness ==
  /\ last.op = "reader_cb"
  /\ last.okreq # NoReq
  /\ prv.requests[last.okreq].type = TAPDISK_NBD_CMD_READ
  /\ prv.sent_reqs # <<>>
  /\ prv.requests[last.okreq].gid < prv.requests[prv.sent_reqs[Len(prv.sent_reqs)]].gid

\* C9: when recv() returns 0 or fails during a reader callback, in the
\* reply header or in a READ body, the callback disables the connection with
\* EIO: closed = 3, every request in flight (the one being answered
\* included) is completed with EIO, and the callback completes nothing with
\* success.
C9_RecvFailureDisables ==
  (last.op = "reader_cb" /\ last.fail) =>
    /\ prv.closed = 3
    /\ last.disabled = EIO
    /\ ~ReaderRegistered
    /\ \A i \in 1 .. Len(Outstanding) :
         \E j \in 1 .. Len(LastCompletions) :
           LastCompletions[j] =
             [treq |-> prv.requests[Outstanding[i]].treq, err |-> EIO]
    /\ \A j \in 1 .. Len(LastCompletions) : LastCompletions[j].err = EIO
    /\ prv.curr_reply_req # NoReq =>
         \E j \in 1 .. Len(LastCompletions) :
           LastCompletions[j].treq = prv.requests[prv.curr_reply_req].treq

\* recv() fails inside the body of a READ reply, another request in flight.
C9_Witness ==
  /\ last.op = "reader_cb"
  /\ last.fail
  /\ prv.curr_reply_req # NoReq
  /\ prv.requests[prv.curr_reply_req].body.so_far > 0
  /\ prv.requests[prv.curr_reply_req].body.so_far < SECTOR_SIZE
  /\ Len(Outstanding) > 1

\* C10 as stated: a send() that returns 0 or fails during a writer callback
\* disables the connection with EIO and has every request in flight
\* completed with EIO.
C10_Original ==
  (last.op = "writer_cb" /\ last.fail) =>
    /\ prv.closed = 3
    /\ \A i \in 1 .. Len(Outstanding) :
         \E j \in 1 .. Len(completed) :
           completed[j] = [treq |-> prv.requests[Outstanding[i]].treq, err |-> EIO]

\* The reply header in current_reply is whole and either carries an error or
\* names a handle that no slot on sent_reqs carries.
RejectedReply(p) ==
  /\ p.cur_reply_qio.so_far = p.cur_reply_qio.len
  /\ \/ p.current_reply.error # 0
     \/ /\ p.curr_reply_req = NoReq
        /\ \A i \in 1 .. Len(p.sent_reqs) :
             p.requests[p.sent_reqs[i]].handle # p.current_reply.handle

\* C11: a reader callback that ends with a whole reply header carrying a
\* non-zero error, or a handle of no slot on sent_reqs, has disabled the
\* connection with EIO, completed nothing with success and left free_reqs,
\* nr_free_count, sent_reqs and pending_reqs as they were.
C11_RejectedReplyDisables ==
  [][(last'.op = "reader_cb" /\ RejectedReply(prv')) =>
       /\ prv'.closed = 3
       /\ last'.disabled = EIO
       /\ last'.okreq = NoReq
       /\ \A j \in (Len(completed) + 1) .. Len(completed') :
            completed'[j].err = EIO
       /\ prv'.free_reqs = prv.free_reqs
       /\ prv'.nr_free_count = prv.nr_free_count
       /\ prv'.sent_reqs = prv.sent_reqs
       /\ prv'.pending_reqs = prv.pending_reqs]_vars

\* A reply with an error for one of two requests in flight.
C11_Witness ==
  /\ last.op = "reader_cb"
  /\ RejectedReply(prv)
  /\ prv.current_reply.error # 0
  /\ Len(prv.sent_reqs) = 2
  /\ Len(LastCompletions) = 2

\* C12 as stated: a reader callback that has worked on a whole reply header
\* whose magic is not 0x67446698 has disabled the connection with EIO and
\* has completed no request with success.
C12_Original ==
  (/\ last.op = "reader_cb"
   /\ \/ prv.cur_reply_qio.so_far = prv.cur_reply_qio.len
      \/ last.okreq # NoReq
   /\ prv.current_reply.magic # NBD_REPLY_MAGIC) =>
    /\ prv.closed = 3
    /\ last.disabled = EIO
    /\ last.okreq = NoReq
    /\ \A j \in 1 .. Len(LastCompletions) : LastCompletions[j].err # 0

\* C19 as stated: every slot on sent_reqs has its whole header sent and, if
\* it is a WRITE, its whole body, also after a send() that returned 0 or
\* failed.
C19_Original ==
  \A i \in 1 .. Len(prv.sent_reqs) :
    LET req == prv.requests[prv.sent_reqs[i]]
    IN /\ req.header.len = NBD_REQUEST_SIZE
       /\ req.header.so_far = req.header.len
       /\ req.type = TAPDISK_NBD_CMD_WRITE => req.body.so_far = req.body.len

\* C20: once closed = 3 no step changes free_reqs, pending_reqs, sent_reqs,
\* nr_free_count or closed, and none registers an event.
C20_DeadIsTerminal ==
  [][prv.closed = 3 =>
       /\ prv'.closed = 3
       /\ prv'.free_reqs = prv.free_reqs
       /\ prv'.pending_reqs = prv.pending_reqs
       /\ prv'.sent_reqs = prv.sent_reqs
       /\ prv'.nr_free_count = prv.nr_free_count
       /\ sched' \subseteq sched]_vars

\* An enqueue and then a close have run on a connection that died with a
\* request on each list and a slot free.
C20_Witness ==
  /\ phase = "closed"
  /\ last.op = "close"
  /\ prv.closed = 3
  /\ \E j \in 1 .. Len(completed) : completed[j].err = -ETIMEDOUT
  /\ Outstanding # <<>>

\* C16 as stated: stash(fd, id) stores the pair in the first slot whose id
\* matches, or when none matches in the first slot whose fd is -1, closing
\* the descriptor that slot held; when there is no such slot it closes fd
\* and leaves the table alone.
C16_Original ==
  [][(last'.op = "stash" /\ next_fd' = next_fd + 1) =>
       LET id == last'.arg[1]
           fd == last'.arg[2]
           matching == {i \in StashSlots : strncmp_eq(id, passed_fds[i].id)}
           unused == {i \in StashSlots : passed_fds[i].fd = -1}
           chosen == IF matching # {} THEN first_index(matching)
                     ELSE first_index(unused)
       IN IF chosen = -1
          THEN passed_fds' = passed_fds /\ fd \notin fds'
          ELSE /\ passed_fds' =
                    [passed_fds EXCEPT ![chosen] = [id |-> id, fd |-> fd]]
               /\ fd \in fds'
               /\ passed_fds[chosen].fd > -1 =>
                    passed_fds[chosen].fd \notin fds']_vars

\* C17 as stated: retrieve(id) returns the descriptor stored last under id
\* among those the table still holds, marking its slot -1, and returns -1
\* when the table holds none under id.
C17_Original ==
  [][(last'.op = "retrieve" /\ next_fd' = next_fd) =>
       LET id == last'.arg[1]
           held == {i \in StashSlots :
                      /\ strncmp_eq(id, passed_fds[i].id)
                      /\ passed_fds[i].fd > -1}
       IN IF held = {}
          THEN last'.rc = -1 /\ passed_fds' = passed_fds
          ELSE LET i == CHOOSE k \in held :
                          \A j \in held : stamp[j] <= stamp[k]
               IN /\ last'.rc = passed_fds[i].fd
                  /\ passed_fds' = [passed_fds EXCEPT ![i].fd = -1]]_vars

\* Whether the FD stash holds the connection's socket under its name.
Parked ==
  \E i \in StashSlots :
    /\ passed_fds[i].fd = prv.socket
    /\ passed_fds[i].id = safe_strncpy(prv.name)

\* C13 as stated: when close has returned neither the writer nor the reader
\* event is registered, and the connection's socket has been closed, or
\* parked in the FD stash when the connection was opened by name.
C13_Original ==
  last.op = "close" =>
    /\ ~WriterRegistered
    /\ ~ReaderRegistered
    /\ IF prv.name # NoName
       THEN prv.socket \in fds /\ Parked
       ELSE prv.socket \notin fds

\* C14 as stated: once both magics have arrived the handshake takes the OLD
\* path exactly when the second is the OLD-style magic, the NEW path exactly
\* when it is "IHAVEOPT", and open fails otherwise; when open succeeds the
\* driver info has size == export size >> 9 and sector_size == 512, the
\* socket is non-blocking, the reader callback is registered and closed is
\* 0; when it fails the reader callback is not registered.
C14_Original ==
  last.op = "open" =>
    /\ (hs.path # "none" /\ hs.bad \notin {"magic1", "magic2"}) =>
         /\ hs.path = "old" <=> hs.hello.magic2 = NBD_OLD_VERSION
         /\ hs.path = "new" <=> hs.hello.magic2 = NBD_OPT_MAGIC
    /\ hs.path \in {"none", "greet"} => last.rc # 0
    /\ last.rc = 0 =>
         /\ info.size = hs.hello.size \div (2 ^ 9)
         /\ info.sector_size = 512
         /\ nonblock
         /\ ReaderRegistered
         /\ prv.closed = 0
    /\ last.rc # 0 => ~ReaderRegistered

\* C15 as stated: when at some step of the handshake the peer delivers fewer
\* bytes than the step requires, a wrong magic, or nothing within the
\* timeout, open fails, the socket is closed and the reader callback is not
\* registered.
C15_Original ==
  (last.op = "open" /\ hs.bad # "none") =>
    /\ last.rc # 0
    /\ prv.socket \notin fds
    /\ ~ReaderRegistered

\* What open(name) would retrieve from the FD stash in world w.
WouldRetrieve(w, name) == tdnbd_retrieve_passed_fd(w, name).fd

\* Whether stash(fd, name) finds a slot: one that is unused or carries name.
SlotFor(name) ==
  \E i \in StashSlots :
    passed_fds[i].fd = -1 \/ strncmp_eq(name, passed_fds[i].id)

\* C18: close of a connection opened by name that is not dead, with a stash
\* slot unused or carrying the name, leaves the socket open and parked, so
\* that open(same name) would retrieve that same fd; close of a dead
\* connection, or with no such slot, closes the socket and parks nothing.
C18_CloseParks ==
  [][(last'.op = "close" /\ phase = "open" /\ prv.name # NoName) =>
       IF prv.closed # 3 /\ SlotFor(prv.name)
       THEN /\ prv.socket \in fds'
            /\ WouldRetrieve(World', prv.name) = prv.socket
       ELSE /\ prv.socket \notin fds'
            /\ WouldRetrieve(World', prv.name) # prv.socket]_vars

\* C18 as stated: in every state in which close is called on a connection
\* opened by name, the socket stays open and open(same name) would retrieve
\* it.
C18_Original ==
  [][(last'.op = "close" /\ phase = "open" /\ prv.name # NoName) =>
       /\ prv.socket \in fds'
       /\ WouldRetrieve(World', prv.name) = prv.socket]_vars

\* A connection opened by name has been closed and opened again by the same
\* name, on the one descriptor the process was ever passed.
C18_Witness ==
  /\ nopen = 2
  /\ last.op = "open"
  /\ last.rc = 0
  /\ prv.name # NoName
  /\ next_fd = FirstFd + 1
  /\ prv.socket = FirstFd

\* The types a reply is expected for.
RepliedTypes == {TAPDISK_NBD_CMD_READ, TAPDISK_NBD_CMD_WRITE}

\* C21: every slot on sent_reqs is a READ or a WRITE, and so is the slot the
\* reader has matched (its switch never takes the default branch); a close
\* whose DISC is accepted leaves the DISC slot on free_reqs with
\* nr_free_count as it was before the enqueue, pending_reqs drained, and the
\* connection disabled with EIO (closed = 3 by way of closed = 2).
C21_DiscNeverSent ==
  [][/\ \A i \in 1 .. Len(prv'.sent_reqs) :
          prv'.requests[prv'.sent_reqs[i]].type \in RepliedTypes
     /\ prv'.curr_reply_req # NoReq =>
          prv'.requests[prv'.curr_reply_req].type \in RepliedTypes
     /\ (last'.op = "close" /\ prv.closed # 3 /\ prv.nr_free_count > 0) =>
          LET disc == Head(prv.free_reqs)
          IN /\ prv'.requests[disc].type = TAPDISK_NBD_CMD_DISC
             /\ disc \in Range(prv'.free_reqs)
             /\ disc \notin Range(prv'.sent_reqs)
             /\ disc \notin Range(prv'.pending_reqs)
             /\ prv'.nr_free_count = prv.nr_free_count
             /\ prv'.pending_reqs = <<>>
             /\ last'.disabled = EIO
             /\ prv'.closed = 3]_vars

\* A close has sent its DISC with a request on sent_reqs, and the connection
\* has been disabled.
C21_Witness ==
  /\ last.op = "close"
  /\ last.disabled = EIO
  /\ ~send_failed
  /\ prv.sent_reqs # <<>>
  /\ accepted # <<>>
  /\ accepted[Len(accepted)].type = TAPDISK_NBD_CMD_DISC
  /\ wire[Len(wire)].gid = accepted[Len(accepted)].gid
  /\ wire[Len(wire)].hi = NBD_REQUEST_SIZE

\* --------------------------------------------------- the handle counter
\* global_id is one counter for the whole process: the enqueues of the other
\* connections of the process, and their replies, pass between two steps of
\* this one.  The number of such enqueues looked at is the one that brings
\* the counter to the point where `id % 0xffff` starts again.
OtherEnqueues == {HANDLE_MOD - 1}

OtherConnections ==
  /\ phase = "open"
  /\ global_id < HANDLE_MOD
  /\ \E k \in OtherEnqueues : global_id' = global_id + k
  /\ last' = Did("other", 0, 0, World)
  /\ UNCHANGED <<prv, sched, wire, completed, accepted, send_failed, phase,
                 nsub, passed_fds, fds, next_fd, nstored, stamp, info,
                 nonblock, hs, nopen>>

NextHandles ==
  \/ Open
  \/ QueueRead
  \/ WriterCb
  \/ ReaderCb
  \/ OtherConnections

SpecHandles == Init /\ [][NextHandles]_vars

\* A step in which queue_read or queue_write has put a request on
\* pending_reqs.
AcceptedStep == EnqueueStep /\ Len(accepted') = Len(accepted) + 1

\* C22 as stated: the request that takes counter value n carries the handle
\* "td" followed by the five hex digits of n mod 2^20, and the counter goes
\* up by one on every accepted enqueue.
C22_Original ==
  [][AcceptedStep =>
       LET req == prv'.pending_reqs[Len(prv'.pending_reqs)]
       IN /\ prv'.requests[req].handle = <<"t", "d">> \o Hex5(global_id % (2 ^ 20))
          /\ global_id' = global_id + 1]_vars

\* C23 as stated: any two requests in flight at the same time, on
\* pending_reqs or sent_reqs, carry different handles.
C23_Original ==
  \A i, j \in 1 .. Len(Outstanding) :
    prv.requests[Outstanding[i]].handle = prv.requests[Outstanding[j]].handle
      => i = j

\* C24: on a connection that is open and not dead, curr_reply_req is
\* non-null only while the reply header is whole (cursor 16) and the slot it
\* names is a READ on sent_reqs whose body is not read to the end; and when
\* the reader callback has consumed a reply to the end, the slot it answered
\* is on free_reqs, the header cursor is 0 and curr_reply_req is null.
C24_ReplyCursor ==
  (phase = "open" /\ prv.closed # 3) =>
    /\ prv.curr_reply_req # NoReq =>
         LET req == prv.requests[prv.curr_reply_req]
         IN /\ prv.cur_reply_qio.so_far = NBD_REPLY_SIZE
            /\ req.type = TAPDISK_NBD_CMD_READ
            /\ prv.curr_reply_req \in Range(prv.sent_reqs)
            /\ req.body.so_far < req.body.len
    /\ (last.op = "reader_cb" /\ last.okreq # NoReq) =>
         /\ last.okreq \in Range(prv.free_reqs)
         /\ last.okreq \notin Range(Outstanding)
         /\ prv.cur_reply_qio.so_far = 0
         /\ prv.curr_reply_req = NoReq

\* A reply has been consumed to the end, and the reader callback has then
\* stopped in the middle of the body of a READ.
C24_Witness ==
  /\ phase = "open"
  /\ prv.closed # 3
  /\ prv.curr_reply_req # NoReq
  /\ prv.requests[prv.curr_reply_req].body.so_far > 0
  /\ completed # <<>>

\* C25 as stated: when queue_read or queue_write returns, the request it was
\* passed has been put on pending_reqs or has been completed upstream with
\* an error.
C25_Original ==
  [][EnqueueStep =>
       \/ /\ prv'.pending_reqs # <<>>
          /\ prv'.requests[prv'.pending_reqs[Len(prv'.pending_reqs)]].treq
               = last'.treq
          /\ Len(accepted') = Len(accepted) + 1
       \/ /\ Len(completed') = Len(completed) + 1
          /\ completed'[Len(completed')].treq = last'.treq
          /\ completed'[Len(completed')].err # 0]_vars

\* ------------------------------------------------------------- progress
\* The engine with a scheduler, a socket and a peer that do their part: no
\* send() or recv() fails, every callback moves at least one byte, and the
\* peer answers the requests on sent_reqs with well-formed replies.
GoodReply(p, rep) ==
  /\ rep.magic = NBD_REPLY_MAGIC
  /\ rep.error = 0
  /\ \E s \in Range(p.sent_reqs) : p.requests[s].handle = rep.handle

WriterLive ==
  /\ phase = "open"
  /\ prv.writer_event_id \in sched
  /\ \E w \in tdnbd_writer_cb(World, TRUE) :
       /\ ~w.fail
       /\ w.wire # wire
       /\ Install(w)
       /\ last' = Did("writer_cb", 0, 0, w)
  /\ UNCHANGED <<phase, nsub, nopen>>

ReaderLive ==
  /\ phase = "open"
  /\ prv.reader_event_id \in sched
  /\ prv.sent_reqs # <<>>
  /\ \E w \in tdnbd_reader_cb(World) :
       /\ ~w.fail
       /\ w.prv # prv
       /\ w.prv.current_reply = prv.current_reply
            \/ GoodReply(prv, w.prv.current_reply)
       /\ Install(w)
       /\ last' = Did("reader_cb", 0, 0, w)
  /\ UNCHANGED <<phase, nsub, nopen>>

CloseLive ==
  /\ phase = "open"
  /\ \E r \in tdnbd_close(World) :
       /\ ~r.w.fail
       /\ Install(r.w)
       /\ last' = Did("close", r.rc, 0, r.w)
  /\ phase' = "closed"
  /\ UNCHANGED <<nsub, nopen>>

NextLive ==
  \/ Open
  \/ QueueRead
  \/ QueueWrite
  \/ WriterLive
  \/ ReaderLive
  \/ CloseLive

SpecLive ==
  /\ Init
  /\ [][NextLive]_vars
  /\ WF_vars(WriterLive)
  /\ WF_vars(ReaderLive)

\* The upstream requests of the model.
Treqs == 1 .. MaxSubmit

\* The request treq is on pending_reqs or sent_reqs.
InFlight(treq) ==
  \E i \in 1 .. Len(Outstanding) : prv.requests[Outstanding[i]].treq = treq

\* C26: with a scheduler, a socket and a peer that do their part, every
\* request that is in flight is eventually completed, with its slot off
\* pending_reqs and sent_reqs (back on free_reqs), unless the connection is
\* closed first.
C26_Progress ==
  \A t \in Treqs :
    InFlight(t) ~> ((Times(t) >= 1 /\ ~InFlight(t)) \/ phase = "closed")

\* C26 as stated: every request that is in flight is eventually completed,
\* with its slot back on free_reqs.
C26_Original ==
  \A t \in Treqs : InFlight(t) ~> (Times(t) >= 1 /\ ~InFlight(t))

\* Every request of the model has been accepted, answered without error and
\* its slot freed, on a connection that is still open.
C26_Witness ==
  /\ phase = "open"
  /\ Len(completed) = MaxSubmit
  /\ \A i \in 1 .. Len(completed) : completed[i].err = 0
  /\ Outstanding = <<>>
  /\ Len(prv.free_reqs) = MAX_NBD_REQS

\* C27 as stated: the handshake returns, with success or with failure,
\* whatever the peer does; tdnbd_open is never left inside it.
C27_Original ==
  phase # "negotiating" /\ last.op # "open_hung"

====
